---- MODULE Spec2Model ----
(***************************************************************************)
(* gitingest-ts: the directory walker (query_ingestion), the query builder *)
(* (query_parser), the glob matcher (utils.fnmatch) and the notebook       *)
(* extractor's failure modes (notebook_utils), as a state machine.         *)
(*                                                                         *)
(* Strings the code inspects character by character (paths, names,         *)
(* patterns) are sequences of one-character strings, so that startsWith,   *)
(* endsWith, basename, path.relative, toLowerCase and the glob match are   *)
(* computed, not assumed.                                                  *)
(***************************************************************************)
EXTENDS Integers, Sequences, FiniteSets, TLC

VARIABLES
    fs,         \* the filesystem the run reads (unchanging during a run)
    query,      \* the ParsedQuery handed to ingestRepository
    pc,         \* "idle" | "scan" | "done"  (position in ingestRepository)
    stack,      \* the in-flight scanDirectory calls, outermost first
    stats,      \* FileStats {totalFiles, totalSize}
    seenPaths,  \* Set<string> of symlink targets already entered
    rootNode,   \* what scanDirectory(repository, ...) returned: <<>> is null
    result,     \* what ingestRepository settled with
    raised,     \* the errors thrown so far in the run, in order
    counted,    \* bag (path -> times) of the files processFile has counted
    entered,    \* bag (path -> times) of symlink targets processSymlink went into
    pq,         \* the parseQuery call in flight (see SpecQuery)
    call        \* the ingestLocalRepository or ingestRemoteRepository call in
                \* flight (see SpecIngest)

vars == <<fs, query, pc, stack, stats, seenPaths, rootNode, result, raised,
          counted, entered, pq, call>>

-----------------------------------------------------------------------------
(* Bounds of the model *)

\* deepest query.maxDirectoryDepth tried (the default, 20, needs 21 nested
\* directories to matter)
MaxDepth == 2

\* the file-count limit of the build, scaled down from 10_000 so that a small
\* tree reaches it
MAX_FILES == 2

\* MAX_FILE_SIZE = 10 * 1024 * 1024
MAX_FILE_SIZE == 10485760

\* longest exclude or include list handed to parseQuery
MaxPatterns == 2

\* the cumulative-size limit of the build, scaled down from 500 MiB to 15 MiB
\* so that MAX_FILES files of MAX_FILE_SIZE bytes exceed it, as 10_000 files
\* of 10 MiB exceed 500 MiB
MAX_TOTAL_SIZE_BYTES == 15728640

\* the number of symbolic links fs.stat follows in one path before it fails
\* with ELOOP (40 on Linux), scaled down
MAXSYMLINKS == 2

-----------------------------------------------------------------------------
(* Character-level strings *)

Slash == "/"

None == <<>>
Some(x) == <<x>>

StartsWith(s, p) ==
    /\ Len(p) <= Len(s)
    /\ \A i \in 1..Len(p) : s[i] = p[i]

EndsWith(s, p) ==
    /\ Len(p) <= Len(s)
    /\ \A i \in 1..Len(p) : s[Len(s) - Len(p) + i] = p[i]

\* path.join(dir, name) for an absolute normalized dir and a plain name
Join(dir, name) == dir \o <<Slash>> \o name

\* index of the last "/" of p, 0 when there is none
LastSlash(p) ==
    LET S == {i \in 1..Len(p) : p[i] = Slash}
    IN  IF S = {} THEN 0 ELSE CHOOSE i \in S : \A j \in S : j <= i

\* path.basename
Basename(p) == SubSeq(p, LastSlash(p) + 1, Len(p))

\* the components of an absolute path: "/r/d" -> << <<"r">>, <<"d">> >>
RECURSIVE Split(_)
Split(p) ==
    IF p = <<>> THEN <<>>
    ELSE LET S == {i \in 1..Len(p) : p[i] = Slash}
             n == IF S = {} THEN Len(p) + 1
                  ELSE CHOOSE i \in S : \A j \in S : i <= j
             head == SubSeq(p, 1, n - 1)
             rest == Split(SubSeq(p, n + 1, Len(p)))
         IN  IF head = <<>> THEN rest ELSE <<head>> \o rest

RECURSIVE JoinParts(_)
JoinParts(parts) ==
    IF parts = <<>> THEN <<>>
    ELSE IF Len(parts) = 1 THEN parts[1]
    ELSE parts[1] \o <<Slash>> \o JoinParts(Tail(parts))

\* number of leading components two component lists share
RECURSIVE CommonLen(_, _)
CommonLen(a, b) ==
    IF a = <<>> \/ b = <<>> THEN 0
    ELSE IF a[1] = b[1] THEN 1 + CommonLen(Tail(a), Tail(b))
    ELSE 0

\* path.relative(from, to) for absolute normalized paths
Relative(from, to) ==
    LET f == Split(from)
        t == Split(to)
        c == CommonLen(f, t)
        ups == [i \in 1..(Len(f) - c) |-> <<".", ".">>]
    IN  JoinParts(ups \o SubSeq(t, c + 1, Len(t)))

LowerOf(ch) ==
    CASE ch = "R" -> "r" [] ch = "E" -> "e" [] ch = "A" -> "a"
      [] ch = "D" -> "d" [] ch = "M" -> "m" [] OTHER -> ch

\* String.prototype.toLowerCase over the letters the model uses
ToLowerCase(s) == [i \in 1..Len(s) |-> LowerOf(s[i])]

\* fnmatch: the pattern becomes the anchored regex in which "*" is ".*",
\* "?" is "." and every other character is literal
RECURSIVE fnmatch(_, _)
fnmatch(name, pattern) ==
    IF pattern = <<>> THEN name = <<>>
    ELSE IF pattern[1] = "*"
         THEN \E k \in 0..Len(name) :
                fnmatch(SubSeq(name, k + 1, Len(name)), Tail(pattern))
    ELSE /\ name # <<>>
         /\ (pattern[1] = "?" \/ pattern[1] = name[1])
         /\ fnmatch(Tail(name), Tail(pattern))

-----------------------------------------------------------------------------
(* The filesystem: names, paths and entries *)

nREADME == <<"R", "E", "A", "D", "M", "E", ".", "m", "d">>
nA      == <<"a">>
nN      == <<"n", ".", "i", "p", "y", "n", "b">>
nD      == <<"d">>
nL      == <<"l">>
nB      == <<"b">>
nK      == <<"k">>
nE      == <<"e">>
nC      == <<"c">>
nX      == <<"x">>
nY      == <<"y">>

\* the traversal root, a sibling directory whose path string begins with the
\* root's path string, and a directory elsewhere
ROOT    == <<Slash, "r">>
SIBLING == <<Slash, "r", "x">>
OUTSIDE == <<Slash, "o">>

pREADME == Join(ROOT, nREADME)
pA      == Join(ROOT, nA)
pN      == Join(ROOT, nN)
pD      == Join(ROOT, nD)
pL      == Join(ROOT, nL)
pB      == Join(pD, nB)
pK      == Join(pD, nK)
pE      == Join(pD, nE)
pC      == Join(pE, nC)
pX      == Join(SIBLING, nX)
pY      == Join(OUTSIDE, nY)

Paths == {ROOT, SIBLING, OUTSIDE, pREADME, pA, pN, pD, pL, pB, pK, pE, pC, pX, pY}

Absent == [kind |-> "absent", size |-> 0, data |-> "none", nb |-> "na",
           target |-> <<>>, names |-> {}, statOk |-> FALSE, listOk |-> FALSE]

\* a regular file: its size, what its first bytes are ("text", "empty",
\* "binary"), and for a notebook what JSON.parse and the cells check make of it
File(size, data, nb, statOk) ==
    [Absent EXCEPT !.kind = "file", !.size = size, !.data = data, !.nb = nb,
                   !.statOk = statOk]

Dir(names, listOk) ==
    [Absent EXCEPT !.kind = "dir", !.size = 4096, !.names = names,
                   !.statOk = TRUE, !.listOk = listOk]

\* a symbolic link; target is what fs.realpath resolves it to
Link(target) ==
    [Absent EXCEPT !.kind = "link", !.target = target, !.statOk = TRUE]

\* the one irregularity a filesystem of the model may carry
Faults == {"none", "aBig", "bBig", "nbBadJson", "nbNoCells", "nbNoText",
           "aBinary", "aEmpty", "bStatFails", "eUnreadable"}

\* files as large as a file may be: a alone, or README.md and a
Weights == {"aHeavy", "heavy"}

\* the filesystem with the given root and d listings, link targets and fault
MkFS(rootNames, dNames, lTarget, kTarget, fault) ==
    LET inRoot(n) == n \in rootNames
        inD(n)    == nD \in rootNames /\ n \in dNames
        inE       == inD(nE)
    IN  [p \in Paths |->
          CASE p = ROOT    -> Dir(rootNames, TRUE)
            [] p = SIBLING -> Dir({nX}, TRUE)
            [] p = OUTSIDE -> Dir({nY}, TRUE)
            [] p = pX      -> File(1, "text", "na", TRUE)
            [] p = pY      -> File(1, "text", "na", TRUE)
            [] p = pREADME -> IF inRoot(nREADME)
                              THEN File(IF fault = "heavy" THEN MAX_FILE_SIZE
                                        ELSE 2,
                                        "text", "na", TRUE)
                              ELSE Absent
            [] p = pA      -> IF inRoot(nA)
                              THEN File(IF fault = "aBig" THEN MAX_FILE_SIZE + 1
                                        ELSE IF fault \in {"heavy", "aHeavy"}
                                        THEN MAX_FILE_SIZE
                                        ELSE IF fault = "aEmpty" THEN 0 ELSE 3,
                                        IF fault = "aBinary" THEN "binary"
                                        ELSE IF fault = "aEmpty" THEN "empty"
                                        ELSE "text",
                                        "na", TRUE)
                              ELSE Absent
            [] p = pN      -> IF inRoot(nN)
                              THEN File(5, "text",
                                        IF fault = "nbBadJson" THEN "badjson"
                                        ELSE IF fault = "nbNoCells" THEN "nocells"
                                        ELSE IF fault = "nbNoText" THEN "notext"
                                        ELSE "ok",
                                        TRUE)
                              ELSE Absent
            [] p = pD      -> IF inRoot(nD) THEN Dir(dNames, TRUE) ELSE Absent
            [] p = pL      -> IF inRoot(nL) THEN Link(lTarget) ELSE Absent
            [] p = pB      -> IF inD(nB)
                              THEN File(IF fault = "bBig" THEN MAX_FILE_SIZE + 1
                                        ELSE 7,
                                        "text", "na", fault # "bStatFails")
                              ELSE Absent
            [] p = pK      -> IF inD(nK) THEN Link(kTarget) ELSE Absent
            [] p = pE      -> IF inE THEN Dir({nC}, fault # "eUnreadable")
                              ELSE Absent
            [] p = pC      -> IF inE THEN File(11, "text", "na", TRUE)
                              ELSE Absent]

-----------------------------------------------------------------------------
(* Child ordering *)

\* collation rank of a character: punctuation before letters, a lower-case
\* letter before its upper-case form
CharRank(ch) ==
    CASE ch = "." -> 1  [] ch = "a" -> 2  [] ch = "A" -> 3  [] ch = "b" -> 4
      [] ch = "c" -> 5  [] ch = "d" -> 6  [] ch = "D" -> 7  [] ch = "e" -> 8
      [] ch = "E" -> 9  [] ch = "i" -> 10 [] ch = "k" -> 11 [] ch = "l" -> 12
      [] ch = "m" -> 13 [] ch = "M" -> 14 [] ch = "n" -> 15 [] ch = "o" -> 16
      [] ch = "p" -> 17 [] ch = "r" -> 18 [] ch = "R" -> 19 [] ch = "x" -> 20
      [] ch = "y" -> 21 [] OTHER -> 22

\* a.localeCompare(b): negative, zero or positive
RECURSIVE localeCompare(_, _)
localeCompare(a, b) ==
    IF a = <<>> /\ b = <<>> THEN 0
    ELSE IF a = <<>> THEN -1
    ELSE IF b = <<>> THEN 1
    ELSE IF CharRank(a[1]) < CharRank(b[1]) THEN -1
    ELSE IF CharRank(a[1]) > CharRank(b[1]) THEN 1
    ELSE localeCompare(Tail(a), Tail(b))

README_LOWER == <<"r", "e", "a", "d", "m", "e", ".", "m", "d">>

IsReadme(n) == ToLowerCase(n.name) = README_LOWER

\* the comparator without its second line (b is README.md)
CompareOneSided(a, b) ==
    IF IsReadme(a) THEN -1
    ELSE LET aIsHidden == StartsWith(a.name, <<".">>)
             bIsHidden == StartsWith(b.name, <<".">>)
         IN  IF a.isDirectory # b.isDirectory
             THEN (IF a.isDirectory THEN 1 ELSE -1)
             ELSE IF aIsHidden # bIsHidden
             THEN (IF aIsHidden THEN 1 ELSE -1)
             ELSE localeCompare(a.name, b.name)

\* the comparator handed to Array.prototype.sort by sortChildren
Compare(a, b) ==
    IF IsReadme(a) THEN -1
    ELSE IF IsReadme(b) THEN 1
    ELSE LET aIsHidden == StartsWith(a.name, <<".">>)
             bIsHidden == StartsWith(b.name, <<".">>)
         IN  IF a.isDirectory # b.isDirectory
             THEN (IF a.isDirectory THEN 1 ELSE -1)
             ELSE IF aIsHidden # bIsHidden
             THEN (IF aIsHidden THEN 1 ELSE -1)
             ELSE localeCompare(a.name, b.name)

Reverse(s) == [i \in 1..Len(s) |-> s[Len(s) + 1 - i]]

\* Array.prototype.sort of the build (V8): below 64 elements one run is
\* counted (and reversed when strictly descending), then the rest is placed
\* by binary insertion.  RunEnd is the last index of the initial run.
RECURSIVE RunEnd(_, _, _)
RunEnd(s, desc, idx) ==
    IF idx > Len(s) THEN Len(s)
    ELSE LET order == Compare(s[idx], s[idx - 1])
         IN  IF (desc /\ order >= 0) \/ (~desc /\ order < 0) THEN idx - 1
             ELSE RunEnd(s, desc, idx + 1)

RECURSIVE InsertionPoint(_, _, _, _)
InsertionPoint(s, pivot, left, right) ==
    IF left >= right THEN left
    ELSE LET mid == left + ((right - left) \div 2)
         IN  IF Compare(pivot, s[mid]) < 0
             THEN InsertionPoint(s, pivot, left, mid)
             ELSE InsertionPoint(s, pivot, mid + 1, right)

RECURSIVE BinaryInsertionSort(_, _)
BinaryInsertionSort(s, start) ==
    IF start > Len(s) THEN s
    ELSE LET pivot == s[start]
             at    == InsertionPoint(s, pivot, 1, start)
             moved == SubSeq(s, 1, at - 1) \o <<pivot>>
                      \o SubSeq(s, at, start - 1)
                      \o SubSeq(s, start + 1, Len(s))
         IN  BinaryInsertionSort(moved, start + 1)

ArraySort(s) ==
    IF Len(s) < 2 THEN s
    ELSE LET desc == Compare(s[2], s[1]) < 0
             run  == RunEnd(s, desc, 3)
             made == IF desc
                     THEN Reverse(SubSeq(s, 1, run)) \o SubSeq(s, run + 1, Len(s))
                     ELSE s
         IN  BinaryInsertionSort(made, run + 1)

sortChildren(children) == ArraySort(children)

-----------------------------------------------------------------------------
(* The walker's helpers *)

FileNode(name, path, size, isDirectory, children, content) ==
    [name |-> name, path |-> path, size |-> size, isDirectory |-> isDirectory,
     children |-> children, content |-> content]

StatOk(p) == fs[p].kind # "absent" /\ fs[p].statOk

shouldExclude(filePath, basePath, ignorePatterns) ==
    LET relPath == Relative(basePath, filePath)
    IN  \E pattern \in ignorePatterns :
            pattern # <<>> /\ fnmatch(relPath, pattern)

shouldInclude(filePath, basePath, includePatterns) ==
    IF includePatterns = {} THEN TRUE
    ELSE LET relPath == Relative(basePath, filePath)
         IN  \E pattern \in includePatterns : fnmatch(relPath, pattern)

\* isTextFile: no NUL among the first 1024 bytes; zero bytes read is text
isTextFile(filePath) == fs[filePath].data # "binary"

\* readFileContent
readFileContent(filePath) ==
    IF fs[filePath].data = "empty" THEN "" ELSE "text"

\* processNotebook: the error it throws, or None
NotebookError(filePath) ==
    CASE fs[filePath].nb = "badjson" -> Some("InvalidNotebook")
      [] fs[filePath].nb = "nocells" -> Some("InvalidNotebook")
      [] OTHER -> None

\* processNotebook: the joined cells (no non-blank cell gives "")
processNotebook(filePath) ==
    IF fs[filePath].nb = "notext" THEN "" ELSE "[code]"

IPYNB == <<".", "i", "p", "y", "n", "b">>

\* fs.realpath of a symlink: None when it throws (dangling link)
Realpath(symlinkPath) ==
    LET t == fs[symlinkPath].target
    IN  IF t \in Paths /\ fs[t].kind # "absent" THEN Some(t) ELSE None

isSafeSymlink(symlinkPath, basePath) ==
    LET targetPath == Realpath(symlinkPath)
    IN  IF targetPath = None THEN FALSE
        ELSE StartsWith(targetPath[1], basePath)

\* processSymlink without its revisit check
AlreadyVisitedNever(targetPath) == FALSE

\* the revisit check of processSymlink
AlreadyVisited(targetPath) == targetPath \in seenPaths

\* the file-count check of processFile
FileLimitReached(st) == st.totalFiles >= MAX_FILES

\* the file-size check of processFile
FileTooBig(size) == size > MAX_FILE_SIZE

\* processFile(filePath, parentNode, stats): the error thrown (None when it
\* returns), the stats it leaves, and the node pushed to parentNode.children
processFile(filePath, st) ==
    LET size    == fs[filePath].size
        bumped  == [totalFiles |-> st.totalFiles + 1,
                    totalSize  |-> st.totalSize + size]
        isNb    == EndsWith(filePath, IPYNB)
        content == IF ~isTextFile(filePath) THEN None
                   ELSE IF isNb THEN Some(processNotebook(filePath))
                   ELSE Some(readFileContent(filePath))
        fileNode == FileNode(Basename(filePath), filePath, size, FALSE, <<>>,
                             content)
        fail(e, s, c) == [err |-> Some(e), stats |-> s, node |-> None,
                          counts |-> c]
    IN  IF ~StatOk(filePath) THEN fail("StatError", st, FALSE)
        ELSE IF FileLimitReached(st) THEN fail("MaxFilesReached", st, FALSE)
        ELSE IF FileTooBig(size) THEN fail("MaxFileSizeReached", st, FALSE)
        ELSE IF isTextFile(filePath) /\ isNb /\ NotebookError(filePath) # None
             THEN fail("InvalidNotebook", bumped, TRUE)
        ELSE [err |-> None, stats |-> bumped, node |-> Some(fileNode),
              counts |-> TRUE]

\* the depth guard at the head of scanDirectory
TooDeep(depth) == depth > query.maxDirectoryDepth

\* processSymlink entering the target at the depth of the link's directory
SymlinkDepthSame(depth) == depth

\* the depth processSymlink enters a target directory at
SymlinkDepth(depth) == depth + 1

\* the head of scanDirectory(dirPath, query, seenPaths, depth, stats) up to
\* the directory listing: "null" (too deep), "throw" (fs.stat outside the
\* try), "unreadable" (fs.readdir throws inside it), or "enter" with the frame
ScanHead(dirPath, depth) ==
    IF TooDeep(depth) THEN [how |-> "null", frame |-> None]
    ELSE IF ~StatOk(dirPath) THEN [how |-> "throw", frame |-> None]
    ELSE IF fs[dirPath].kind # "dir" \/ ~fs[dirPath].listOk
         THEN [how |-> "unreadable", frame |-> None]
    ELSE [how |-> "enter",
          frame |-> Some([path |-> dirPath, depth |-> depth,
                          children |-> <<>>, todo |-> fs[dirPath].names])]

\* a per-entry catch that throws every error again
RethrownAll(e) == TRUE

\* the errors the per-entry catch of scanDirectory throws again
Rethrown(e) == e \in {"MaxFilesReached", "MaxFileSizeReached"}

Top == stack[Len(stack)]

Below == SubSeq(stack, 1, Len(stack) - 1)

\* the stack with entry `name` of the top frame's listing consumed
Consumed(name) ==
    [stack EXCEPT ![Len(stack)].todo = @ \ {name}]

\* the stack after the current scanDirectory call has pushed `node` to its
\* own children and moved past entry `name`
PushedChild(name, node) ==
    [stack EXCEPT ![Len(stack)].todo = @ \ {name},
                  ![Len(stack)].children = Append(@, node)]

Bump(bag, p) == [bag EXCEPT ![p] = @ + 1]

\* what becomes of the run when processing entry `name` of the top frame
\* throws e: a limit error is thrown again by the per-entry catch and lands in
\* the catch around the listing loop of the same call, which returns null to
\* its caller; anything else is logged and the loop goes on
Thrown(name, e) ==
    /\ raised' = Append(raised, e)
    /\ IF Rethrown(e)
       THEN /\ stack' = Below
            /\ rootNode' = rootNode
       ELSE /\ stack' = Consumed(name)
            /\ rootNode' = rootNode

-----------------------------------------------------------------------------
(* The content output *)

\* the truthiness of node.content: undefined and "" are falsy
Truthy(content) == content # None /\ content[1] # ""

\* extractFilesContent(query, node): the file nodes whose content is truthy,
\* the node first and then its children in order
RECURSIVE extractFilesContent(_)
extractFilesContent(node) ==
    LET own == IF ~node.isDirectory /\ Truthy(node.content)
               THEN <<node>> ELSE <<>>
        RECURSIVE below(_)
        below(i) == IF i > Len(node.children) THEN <<>>
                    ELSE extractFilesContent(node.children[i]) \o below(i + 1)
    IN  own \o below(1)

\* normalizePathStr: every backslash becomes a slash
normalizePathStr(filePath) ==
    [i \in 1..Len(filePath) |->
        IF filePath[i] = "\\" THEN Slash ELSE filePath[i]]

\* createFileContentString(files): one block per file, a delimiter line of 80
\* "=", the path, the delimiter again, the content
createFileContentString(files) ==
    [i \in 1..Len(files) |->
        [header |-> 80, path |-> normalizePathStr(files[i].path),
         content |-> files[i].content[1]]]

-----------------------------------------------------------------------------
(* Inputs *)

pIPYNB == <<"*", ".", "i", "p", "y", "n", "b">>

\* the listings the root and d may have
RootListings == {{nREADME, nA, nD}, {nREADME, nA, nL}, {nN, nD, nL},
                 {nREADME, nD, nL}}
DListings    == {{nB, nK}, {nB, nE}, {nK, nE}}

\* what the links l (in the root) and k (in d) resolve to
LTargets == {pREADME, pD, pX, pY}
KTargets == {ROOT, pA, pE, pD}

\* a ParsedQuery; parseQuery sets maxFiles to MAX_FILES and maxDirectoryDepth
\* to MAX_DIRECTORY_DEPTH
Query(ig, mf, md) ==
    [repository |-> ROOT, ignorePatterns |-> ig, includePatterns |-> {},
     maxFiles |-> mf, maxTotalSizeBytes |-> MAX_TOTAL_SIZE_BYTES,
     maxDirectoryDepth |-> md]

\* the queries tried: the limits of parseQuery scaled to the model at every
\* depth limit, without and with an exclude pattern, one that excludes
\* README.md and d by name, and one built by hand with a smaller file limit
\* (ParsedQuery is a plain interface of the exported API)
Queries ==
    {Query(ig, MAX_FILES, md) : ig \in {{}, {pIPYNB}}, md \in 0..MaxDepth}
    \cup {Query({nREADME, nD}, MAX_FILES, MaxDepth)}
    \cup {Query({}, MAX_FILES - 1, MaxDepth)}

NoResult == [kind |-> "none", error |-> "", tree |-> None,
             totalFiles |-> 0, totalSize |-> 0, content |-> <<>>]

NoParse == [pc |-> "off"]

NoCall == [pc |-> "off"]

Init ==
    /\ \E rn \in RootListings, dn \in DListings, lt \in LTargets,
          kt \in KTargets, f \in Faults :
          fs = MkFS(rn, dn, lt, kt, f)
    /\ query \in Queries
    /\ pc = "idle"
    /\ stack = <<>>
    /\ stats = [totalFiles |-> 0, totalSize |-> 0]
    /\ seenPaths = {}
    /\ rootNode = None
    /\ result = NoResult
    /\ raised = <<>>
    /\ counted = [p \in Paths |-> 0]
    /\ entered = [p \in Paths |-> 0]
    /\ pq = NoParse
    /\ call = NoCall

-----------------------------------------------------------------------------
(* ingestRepository and the walk *)

\* ingestRepository(repository, query) up to the first directory listing
IngestRepository ==
    /\ pc = "idle"
    /\ LET h == ScanHead(query.repository, 0)
       IN  CASE h.how = "enter" ->
                  /\ pc' = "scan"
                  /\ stack' = <<h.frame[1]>>
                  /\ UNCHANGED <<raised, result>>
             [] h.how = "throw" ->
                  /\ pc' = "done"
                  /\ stack' = <<>>
                  /\ raised' = Append(raised, "StatError")
                  /\ result' = [NoResult EXCEPT !.kind = "error",
                                                !.error = "StatError"]
             [] OTHER ->
                  /\ pc' = "scan"
                  /\ stack' = <<>>
                  /\ raised' = IF h.how = "unreadable"
                               THEN Append(raised, "ReadDirError")
                               ELSE raised
                  /\ UNCHANGED result
    /\ stats' = [totalFiles |-> 0, totalSize |-> 0]
    /\ seenPaths' = {}
    /\ rootNode' = None
    /\ UNCHANGED <<fs, query, counted, entered, pq, call>>

Scanning == pc = "scan" /\ stack # <<>>

EntryPath(name) == Join(Top.path, name)

Filtered(name) ==
    \/ shouldExclude(EntryPath(name), query.repository, query.ignorePatterns)
    \/ ~shouldInclude(EntryPath(name), query.repository, query.includePatterns)

\* scanDirectory, one entry of the listing: the exclude or include check
\* skips it
ScanFiltered ==
    /\ Scanning
    /\ \E name \in Top.todo :
        /\ Filtered(name)
        /\ stack' = Consumed(name)
    /\ UNCHANGED <<fs, query, pc, stats, seenPaths, rootNode, result, raised,
                   counted, entered, pq, call>>

\* the effect of processFile(filePath, node, stats) called for entry `name`
\* of the top frame, with the catch blocks of scanDirectory around it
FileStep(name, filePath) ==
    LET r == processFile(filePath, stats)
    IN  /\ stats' = r.stats
        /\ counted' = IF r.counts THEN Bump(counted, filePath) ELSE counted
        /\ IF r.err = None
           THEN /\ stack' = PushedChild(name, r.node[1])
                /\ UNCHANGED <<raised, rootNode>>
           ELSE Thrown(name, r.err[1])

\* the effect of scanDirectory(dirPath, ..., depth, stats) called for entry
\* `name` of the top frame, up to the callee's directory listing
DirStep(name, dirPath, depth) ==
    LET h == ScanHead(dirPath, depth)
    IN  CASE h.how = "enter" ->
               /\ stack' = Append(Consumed(name), h.frame[1])
               /\ UNCHANGED <<raised, rootNode>>
          [] h.how = "null" ->
               /\ stack' = Consumed(name)
               /\ UNCHANGED <<raised, rootNode>>
          [] h.how = "unreadable" ->
               /\ stack' = Consumed(name)
               /\ raised' = Append(raised, "ReadDirError")
               /\ UNCHANGED rootNode
          [] OTHER -> Thrown(name, "StatError")

\* scanDirectory, one entry of the listing: a regular file
ScanFile ==
    /\ Scanning
    /\ \E name \in Top.todo :
        /\ ~Filtered(name)
        /\ fs[EntryPath(name)].kind = "file"
        /\ FileStep(name, EntryPath(name))
    /\ UNCHANGED <<fs, query, pc, seenPaths, result, entered, pq, call>>

\* scanDirectory, one entry of the listing: a directory
ScanSubdirectory ==
    /\ Scanning
    /\ \E name \in Top.todo :
        /\ ~Filtered(name)
        /\ fs[EntryPath(name)].kind = "dir"
        /\ DirStep(name, EntryPath(name), Top.depth + 1)
    /\ UNCHANGED <<fs, query, pc, stats, seenPaths, result, counted, entered,
                   pq, call>>

\* scanDirectory, one entry of the listing: a symbolic link (processSymlink)
ScanSymlink ==
    /\ Scanning
    /\ \E name \in Top.todo :
        /\ ~Filtered(name)
        /\ fs[EntryPath(name)].kind = "link"
        /\ LET symlinkPath == EntryPath(name)
               targetPath  == Realpath(symlinkPath)[1]
           IN  IF ~isSafeSymlink(symlinkPath, query.repository)
               THEN /\ stack' = Consumed(name)
                    /\ UNCHANGED <<stats, seenPaths, rootNode, raised,
                                   counted, entered>>
               ELSE IF AlreadyVisited(targetPath)
               THEN /\ Thrown(name, "AlreadyVisited")
                    /\ UNCHANGED <<stats, seenPaths, counted, entered>>
               ELSE /\ seenPaths' = seenPaths \cup {targetPath}
                    /\ IF ~StatOk(targetPath)
                       THEN /\ Thrown(name, "StatError")
                            /\ UNCHANGED <<stats, counted, entered>>
                       ELSE /\ entered' = Bump(entered, targetPath)
                            /\ IF fs[targetPath].kind = "dir"
                               THEN /\ DirStep(name, targetPath,
                                               SymlinkDepth(Top.depth))
                                    /\ UNCHANGED <<stats, counted>>
                               ELSE FileStep(name, targetPath)
    /\ UNCHANGED <<fs, query, pc, result, pq, call>>

\* scanDirectory after the last entry: sort the children and return the node
\* to the caller, which pushes it to its own node's children (or, for the
\* outermost call, keeps it as rootNode)
ScanReturn ==
    /\ Scanning
    /\ Top.todo = {}
    /\ LET node == FileNode(Basename(Top.path), Top.path, fs[Top.path].size,
                            TRUE, sortChildren(Top.children), None)
       IN  IF Len(stack) = 1
           THEN /\ stack' = <<>>
                /\ rootNode' = Some(node)
           ELSE /\ stack' = [Below EXCEPT ![Len(stack) - 1].children =
                                               Append(@, node)]
                /\ UNCHANGED rootNode
    /\ UNCHANGED <<fs, query, pc, stats, seenPaths, result, raised, counted,
                   entered, pq, call>>

\* ingestRepository after scanDirectory has settled: the digest, or the
\* 'No files found in repository' error when rootNode is null
Finish ==
    /\ pc = "scan"
    /\ stack = <<>>
    /\ pc' = "done"
    /\ result' = IF rootNode = None
                 THEN [NoResult EXCEPT !.kind = "error",
                                       !.error = "NoFilesFound"]
                 ELSE [kind |-> "ok", error |-> "", tree |-> rootNode,
                       totalFiles |-> stats.totalFiles,
                       totalSize |-> stats.totalSize,
                       content |-> createFileContentString(
                                       extractFilesContent(rootNode[1]))]
    /\ UNCHANGED <<fs, query, stack, stats, seenPaths, rootNode, raised,
                   counted, entered, pq, call>>

Next ==
    \/ IngestRepository
    \/ ScanFiltered
    \/ ScanFile
    \/ ScanSubdirectory
    \/ ScanSymlink
    \/ ScanReturn
    \/ Finish

Spec == Init /\ [][Next]_vars

-----------------------------------------------------------------------------
(* Properties of the walk *)

Done == pc = "done"

Failed(e) == result.kind = "error" /\ result.error = e

Returned == Done /\ result.kind = "ok"

Raised(e) == \E i \in 1..Len(raised) : raised[i] = e

\* p lies in the directory tree rooted at the traversal root
InsideRoot(p) == p = ROOT \/ StartsWith(p, ROOT \o <<Slash>>)

\* C1: once processFile has thrown MaxFilesReached, every enclosing
\* scanDirectory call is unwound (no call is left in flight, so no further
\* entry is processed) and ingestRepository fails with MaxFilesReached
C1_MaxFilesReachedAborts ==
    Raised("MaxFilesReached") =>
        /\ stack = <<>>
        /\ result.kind # "ok"
        /\ Done => Failed("MaxFilesReached")

\* C2: a run in which processFile has met a file larger than MAX_FILE_SIZE
\* ends with ingestRepository failing with MaxFileSizeReached, not a digest
C2_OversizeFileAborts ==
    (Raised("MaxFileSizeReached") /\ Done) => Failed("MaxFileSizeReached")

\* C3: in every state of a run totalFiles stays within the file-count limit
\* the query configures (query.maxFiles)
C3_TotalFilesWithinQueryLimit == stats.totalFiles <= query.maxFiles

\* C4: a run in which a notebook was malformed (bad JSON, or cells missing or
\* not a list) ends with ingestRepository failing with InvalidNotebook
C4_InvalidNotebookAborts ==
    (Raised("InvalidNotebook") /\ Done) => Failed("InvalidNotebook")

\* C5: no path outside the traversal root is ever recorded in the VisitedSet,
\* entered through a symlink, or counted in RunStats
C5_UnsafeSymlinkExcluded ==
    \A p \in Paths :
        ~InsideRoot(p) =>
            /\ p \notin seenPaths
            /\ entered[p] = 0
            /\ counted[p] = 0

\* C7: no file is counted in RunStats more than once in a run
C7_NoFileCountedTwice == \A p \in Paths : counted[p] <= 1

\* C6 (part): no symlink target is entered through a symlink twice
EnteredOnce == \A p \in Paths : entered[p] <= 1

\* C6 (part): a step that throws AlreadyVisited skips that one entry: no call
\* returns or starts, and stats, VisitedSet and the children stay as they are
AlreadyVisitedSkipsEntry ==
    (/\ Len(raised') = Len(raised) + 1
     /\ raised'[Len(raised')] = "AlreadyVisited")
    => /\ Len(stack') = Len(stack)
       /\ stats' = stats
       /\ seenPaths' = seenPaths
       /\ \A i \in 1..Len(stack) :
            /\ stack'[i].children = stack[i].children
            /\ stack'[i].todo \subseteq stack[i].todo
       /\ Cardinality(Top.todo \ stack'[Len(stack)].todo) = 1

RECURSIVE Pow(_, _)
Pow(b, n) == IF n <= 0 THEN 1 ELSE b * Pow(b, n - 1)

\* more than any directory listing plus one
Weight == 2 + Cardinality(UNION {fs[p].names : p \in Paths})

RECURSIVE PendingFrom(_)
PendingFrom(i) ==
    IF i > Len(stack) THEN 0
    ELSE (Cardinality(stack[i].todo) + 1)
            * Pow(Weight, query.maxDirectoryDepth + 1 - i)
         + PendingFrom(i + 1)

\* the work a run still has before it: a natural number that weighs each
\* directory listing in flight by the levels of nesting still open below it
Pending ==
    CASE pc = "idle" -> Pow(Weight, query.maxDirectoryDepth + 1) + 2
      [] pc = "scan" -> 1 + PendingFrom(1)
      [] OTHER       -> 0

\* a run that has not ended has a step to take: the call awaited has one of
\* the shapes the walker handles
CanStep ==
    \/ pc = "idle"
    \/ pc = "scan" /\ stack = <<>>
    \/ /\ Scanning
       /\ \A name \in Top.todo :
            \/ Filtered(name)
            \/ fs[EntryPath(name)].kind \in {"file", "dir", "link"}

\* C6: on every filesystem of the model, those with a symlink back to an
\* ancestor included, the walk ends: a run that has not ended can take a step,
\* and every step brings the natural number Pending down; a symlink whose
\* target is already in the VisitedSet raises AlreadyVisited for that entry
\* only, and no target is entered through a symlink twice
C6_SymlinkCycleTerminates ==
    /\ [](Done \/ CanStep)
    /\ [](Pending >= 0)
    /\ [][Pending' < Pending]_vars
    /\ []EnteredOnce
    /\ [][AlreadyVisitedSkipsEntry]_vars

\* C6 witness: the root was entered once through the link /r/d/k that points
\* back to it, the second meeting of the link raised AlreadyVisited, and the
\* run returned
C6_Witness ==
    /\ Returned
    /\ fs[pK].target = ROOT
    /\ entered[ROOT] = 1
    /\ Raised("AlreadyVisited")

\* every directory Node at or below `node` (itself at depth d) is within the
\* depth limit
RECURSIVE DirDepthOk(_, _)
DirDepthOk(node, d) ==
    node.isDirectory =>
        /\ d <= query.maxDirectoryDepth
        /\ \A i \in 1..Len(node.children) :
                DirDepthOk(node.children[i], d + 1)

\* C9: no directory Node, of the returned tree or under construction, sits
\* deeper than query.maxDirectoryDepth, the root being at depth 0 and every
\* child one deeper than its parent, however the child was reached
C9_DirectoryDepthBounded ==
    /\ rootNode # None => DirDepthOk(rootNode[1], 0)
    /\ result.tree # None => DirDepthOk(result.tree[1], 0)
    /\ \A i \in 1..Len(stack) :
        /\ i - 1 <= query.maxDirectoryDepth
        /\ \A j \in 1..Len(stack[i].children) :
                DirDepthOk(stack[i].children[j], i)

\* some directory Node at the depth limit, reached through a symlink, keeps a
\* file child while a subdirectory it lists has no Node
RECURSIVE AtLimitThroughLink(_, _)
AtLimitThroughLink(node, d) ==
    /\ node.isDirectory
    /\ \/ /\ d = query.maxDirectoryDepth
          /\ entered[node.path] = 1
          /\ \E i \in 1..Len(node.children) : ~node.children[i].isDirectory
          /\ \E name \in fs[node.path].names :
                /\ fs[Join(node.path, name)].kind = "dir"
                /\ \A i \in 1..Len(node.children) :
                        node.children[i].path # Join(node.path, name)
       \/ \E i \in 1..Len(node.children) :
                AtLimitThroughLink(node.children[i], d + 1)

\* C9 witness: a digest was returned without any error, and its tree holds
\* such a directory
C9_Witness ==
    /\ Returned
    /\ raised = <<>>
    /\ AtLimitThroughLink(result.tree[1], 0)

\* in the children of every directory Node at or below `node`, each
\* readme.md precedes each child of another name
RECURSIVE ReadmeFirst(_)
ReadmeFirst(node) ==
    /\ \A i, j \in 1..Len(node.children) :
            (IsReadme(node.children[i]) /\ ~IsReadme(node.children[j]))
                => i < j
    /\ \A i \in 1..Len(node.children) : ReadmeFirst(node.children[i])

\* C10: in the final children sequence of every directory Node, each child
\* named readme.md (in any case) precedes every child of another name
C10_ReadmeFirst ==
    /\ rootNode # None => ReadmeFirst(rootNode[1])
    /\ result.tree # None => ReadmeFirst(result.tree[1])
    /\ \A i \in 1..Len(stack) :
        \A j \in 1..Len(stack[i].children) :
            ReadmeFirst(stack[i].children[j])

\* C10 witness: the returned root holds two children named README.md (the
\* file and the target of a link to it) and a child of another name
C10_Witness ==
    /\ Returned
    /\ LET ch == result.tree[1].children
       IN  /\ \E i, j \in 1..Len(ch) :
                i # j /\ IsReadme(ch[i]) /\ IsReadme(ch[j])
           /\ \E i \in 1..Len(ch) : ~IsReadme(ch[i])

\* a node carries extracted content when its content field is set at all
HasContent(content) == content # None

\* the file Nodes at or below `node` that carry extracted content, the node
\* first and then its children in order
RECURSIVE FilesCarryingContent(_)
FilesCarryingContent(node) ==
    LET own == IF ~node.isDirectory /\ HasContent(node.content)
               THEN <<node>> ELSE <<>>
        RECURSIVE below(_)
        below(i) == IF i > Len(node.children) THEN <<>>
                    ELSE FilesCarryingContent(node.children[i]) \o below(i + 1)
    IN  own \o below(1)

\* C11: the content output of a returned run holds exactly one block for each
\* file Node that carries extracted content, the empty content of a zero-byte
\* text file included, in depth-first pre-order, and no other block
C11_OneBlockPerContentFile ==
    Returned =>
        /\ Len(result.content) = Len(FilesCarryingContent(result.tree[1]))
        /\ \A i \in 1..Len(result.content) :
            LET node == FilesCarryingContent(result.tree[1])[i]
            IN  /\ result.content[i].path = node.path
                /\ result.content[i].content = node.content[1]

\* the per-entry failures that are not limit errors
EntryFailures == {"StatError", "AlreadyVisited", "ReadDirError"}

NoLimitError == ~Raised("MaxFilesReached") /\ ~Raised("MaxFileSizeReached")

\* C13 (part): a step of the walk in which an entry fails with such an error
\* consumes that one entry of the listing being read: no scanDirectory call
\* returns, every other entry still to be processed stays to be processed,
\* and the children gathered so far stay
EntryFailureSkipsEntry ==
    (/\ pc = "scan"
     /\ Len(raised') = Len(raised) + 1
     /\ raised'[Len(raised')] \in EntryFailures)
    => /\ Len(stack') = Len(stack)
       /\ rootNode' = rootNode
       /\ pc' = pc
       /\ \A i \in 1..Len(stack) :
            /\ stack'[i].children = stack[i].children
            /\ stack'[i].path = stack[i].path
            /\ i < Len(stack) => stack'[i].todo = stack[i].todo
       /\ stack'[Len(stack)].todo \subseteq Top.todo
       /\ Cardinality(Top.todo \ stack'[Len(stack)].todo) = 1

\* the directory Node `node` (at depth d) has a child for every entry of its
\* listing that passes the filters and can be processed: a regular file that
\* can be statted and is no malformed notebook, a subdirectory within the
\* depth limit whose listing can be read; and so have the directories below
RECURSIVE SiblingsKept(_, _)
SiblingsKept(node, d) ==
    node.isDirectory =>
        /\ \A name \in fs[node.path].names :
            LET p == Join(node.path, name)
                passes ==
                    /\ ~shouldExclude(p, query.repository, query.ignorePatterns)
                    /\ shouldInclude(p, query.repository, query.includePatterns)
                good ==
                    \/ /\ fs[p].kind = "file"
                       /\ StatOk(p)
                       /\ ~(EndsWith(p, IPYNB) /\ NotebookError(p) # None)
                    \/ /\ fs[p].kind = "dir"
                       /\ fs[p].listOk
                       /\ d + 1 <= query.maxDirectoryDepth
            IN  (passes /\ good) =>
                    \E i \in 1..Len(node.children) : node.children[i].path = p
        /\ \A i \in 1..Len(node.children) :
                SiblingsKept(node.children[i], d + 1)

\* C13 (part): a run without a limit error, whatever other entries failed
\* in it, returns a result, and every directory of its tree holds all the
\* entries that could be processed
FailuresKeepResult ==
    (Done /\ NoLimitError) => (Returned /\ SiblingsKept(result.tree[1], 0))

\* C13: an entry that cannot be statted, a symlink already visited, or a
\* subdirectory whose listing cannot be read costs the run that entry and
\* nothing else: the remaining entries of the directory are processed, the
\* directory yields its Node and ingestRepository returns a result
C13_EntryFailureSkipsOnlyEntry ==
    /\ [][EntryFailureSkipsEntry]_vars
    /\ []FailuresKeepResult

\* C13 witness: b in /r/d could not be statted, and the run returned a tree
\* in which d has its Node and holds the Node of its other entry e, itself
\* holding c
C13_Witness ==
    /\ Returned
    /\ raised = <<"StatError">>
    /\ \E i \in 1..Len(result.tree[1].children) :
        LET d == result.tree[1].children[i]
        IN  /\ d.path = pD
            /\ \E j \in 1..Len(d.children) :
                /\ d.children[j].path = pE
                /\ Len(d.children[j].children) = 1

\* the number of file Nodes at or below `node`
RECURSIVE FileNodes(_)
FileNodes(node) ==
    LET RECURSIVE below(_)
        below(i) == IF i > Len(node.children) THEN 0
                    ELSE FileNodes(node.children[i]) + below(i + 1)
    IN  (IF node.isDirectory THEN 0 ELSE 1) + below(1)

\* the sum of the sizes of the file Nodes at or below `node`
RECURSIVE FileNodeBytes(_)
FileNodeBytes(node) ==
    LET RECURSIVE below(_)
        below(i) == IF i > Len(node.children) THEN 0
                    ELSE FileNodeBytes(node.children[i]) + below(i + 1)
    IN  (IF node.isDirectory THEN 0 ELSE node.size) + below(1)

\* C14: when ingestRepository returns a result, the totals of the summary
\* are those of the tree: totalFiles is the number of file Nodes in it and
\* totalSize the sum of their sizes
C14_TotalsAgreeWithTree ==
    Returned =>
        /\ result.totalFiles = FileNodes(result.tree[1])
        /\ result.totalSize = FileNodeBytes(result.tree[1])

\* the path, taken relative to the traversal root, matches an exclude pattern
Excluded(p) == shouldExclude(p, query.repository, query.ignorePatterns)

\* no Node below `node` has an excluded path
RECURSIVE NoExcludedBelow(_)
NoExcludedBelow(node) ==
    \A i \in 1..Len(node.children) :
        /\ ~Excluded(node.children[i].path)
        /\ NoExcludedBelow(node.children[i])

\* C15: after a traversal no Node of the returned tree and no file counted in
\* RunStats has a path that matches an exclude pattern, the targets of safe
\* symlinks included
C15_NoExcludedPathInTree ==
    Done =>
        /\ \A p \in Paths : counted[p] > 0 => ~Excluded(p)
        /\ result.tree # None => NoExcludedBelow(result.tree[1])

-----------------------------------------------------------------------------
(* parseQuery *)

\* the characters of /^[a-zA-Z0-9\-_.\/+*]+$/
AllowedChars ==
    {"a", "b", "c", "d", "e", "f", "g", "h", "i", "j", "k", "l", "m", "n",
     "o", "p", "q", "r", "s", "t", "u", "v", "w", "x", "y", "z",
     "A", "B", "C", "D", "E", "F", "G", "H", "I", "J", "K", "L", "M", "N",
     "O", "P", "Q", "R", "S", "T", "U", "V", "W", "X", "Y", "Z",
     "0", "1", "2", "3", "4", "5", "6", "7", "8", "9",
     "-", "_", ".", "/", "+", "*"}

\* a validation that looks at the first character only
validPatternFirstChar(pattern) ==
    Len(pattern) >= 1 /\ pattern[1] \in AllowedChars

\* validatePattern returns (does not throw InvalidPatternError)
validPattern(pattern) ==
    /\ Len(pattern) >= 1
    /\ \A i \in 1..Len(pattern) : pattern[i] \in AllowedChars

\* the default deny-list every exclude set starts from
DEFAULT_IGNORE_PATTERNS == {<<".", "g", "i", "t">>}

\* the patterns a caller may supply: two good ones, one with a space, one
\* with "?", and the empty string
pSPACE == <<"a", " ">>
pQUERY == <<"?">>
PatternInputs == {pIPYNB, nD, pSPACE, pQUERY, <<>>}

PatternLists == UNION {[1..n -> PatternInputs] : n \in 0..MaxPatterns}

Range(f) == {f[i] : i \in DOMAIN f}

\* a parseQuery(repository, ignorePatterns, includePatterns) call about to run
ParseCall(repository, ignorePatterns, includePatterns) ==
    [pc |-> "call", repository |-> repository,
     ignoreIn |-> ignorePatterns, includeIn |-> includePatterns,
     finalIgnorePatterns |-> {}, finalIncludePatterns |-> {},
     ni |-> 0, nc |-> 0, validated |-> 0, error |-> "", out |-> None]

InitQuery ==
    /\ fs = MkFS({nREADME, nA, nD}, {nB, nE}, pREADME, ROOT, "none")
    /\ query = Query({}, MAX_FILES, MaxDepth)
    /\ pc = "idle"
    /\ stack = <<>>
    /\ stats = [totalFiles |-> 0, totalSize |-> 0]
    /\ seenPaths = {}
    /\ rootNode = None
    /\ result = NoResult
    /\ raised = <<>>
    /\ counted = [p \in Paths |-> 0]
    /\ entered = [p \in Paths |-> 0]
    /\ \E r \in {ROOT, <<>>}, ig \in PatternLists, inc \in PatternLists :
            pq = ParseCall(r, ig, inc)
    /\ call = NoCall

walk == <<fs, query, pc, stack, stats, seenPaths, rootNode, result, raised,
          counted, entered>>

\* parseQuery: the repository check and the two sets as first built
ParseEnter ==
    /\ pq.pc = "call"
    /\ pq' = IF pq.repository = <<>>
             THEN [pq EXCEPT !.pc = "thrown", !.error = "EmptyRepositoryPath"]
             ELSE [pq EXCEPT !.pc = "run",
                             !.finalIgnorePatterns = DEFAULT_IGNORE_PATTERNS,
                             !.finalIncludePatterns = {}]
    /\ UNCHANGED <<walk, call>>

\* parseQuery: one turn of the loop over ignorePatterns
ParseIgnore ==
    /\ pq.pc = "run"
    /\ pq.ni < Len(pq.ignoreIn)
    /\ LET pattern == pq.ignoreIn[pq.ni + 1]
       IN  pq' = IF validPattern(pattern)
                 THEN [pq EXCEPT !.validated = @ + 1, !.ni = @ + 1,
                                 !.finalIgnorePatterns = @ \cup {pattern}]
                 ELSE [pq EXCEPT !.pc = "thrown", !.error = "InvalidPattern"]
    /\ UNCHANGED <<walk, call>>

\* parseQuery: one turn of the loop over includePatterns
ParseInclude ==
    /\ pq.pc = "run"
    /\ pq.ni = Len(pq.ignoreIn)
    /\ pq.nc < Len(pq.includeIn)
    /\ LET pattern == pq.includeIn[pq.nc + 1]
       IN  pq' = IF validPattern(pattern)
                 THEN [pq EXCEPT !.validated = @ + 1, !.nc = @ + 1,
                                 !.finalIncludePatterns = @ \cup {pattern}]
                 ELSE [pq EXCEPT !.pc = "thrown", !.error = "InvalidPattern"]
    /\ UNCHANGED <<walk, call>>

\* parseQuery: the ParsedQuery returned, with the limits of confg (the file
\* and depth limits as scaled to the model)
ParseReturn ==
    /\ pq.pc = "run"
    /\ pq.ni = Len(pq.ignoreIn)
    /\ pq.nc = Len(pq.includeIn)
    /\ pq' = [pq EXCEPT !.pc = "returned",
                        !.out = Some([repository |-> pq.repository,
                                      ignorePatterns |-> pq.finalIgnorePatterns,
                                      includePatterns |-> pq.finalIncludePatterns,
                                      maxFiles |-> MAX_FILES,
                                      maxTotalSizeBytes |-> MAX_TOTAL_SIZE_BYTES,
                                      maxDirectoryDepth |-> MaxDepth])]
    /\ UNCHANGED <<walk, call>>

NextQuery == ParseEnter \/ ParseIgnore \/ ParseInclude \/ ParseReturn

SpecQuery == InitQuery /\ [][NextQuery]_vars

\* the pattern holds a character outside [A-Za-z0-9-_./+*]
HasBadChar(pattern) == \E i \in 1..Len(pattern) : pattern[i] \notin AllowedChars

Supplied == Range(pq.ignoreIn) \cup Range(pq.includeIn)

Settled == pq.pc \in {"returned", "thrown"}

\* a supplied pattern with a bad character, at any position of either list,
\* makes the call fail with InvalidPattern
BadPatternRejected ==
    (Settled /\ pq.repository # <<>> /\ \E p \in Supplied : HasBadChar(p))
        => (pq.pc = "thrown" /\ pq.error = "InvalidPattern")

\* the caller sees a Configuration only from a call that returned, and then
\* its sets hold the defaults and all the supplied patterns, each of them valid
NoPartialConfiguration ==
    /\ pq.pc # "returned" => pq.out = None
    /\ pq.pc = "returned" =>
        /\ pq.out[1].ignorePatterns =
                DEFAULT_IGNORE_PATTERNS \cup Range(pq.ignoreIn)
        /\ pq.out[1].includePatterns = Range(pq.includeIn)
        /\ \A p \in Supplied : ~HasBadChar(p)

\* some supplied pattern has been added to one of the two sets
SomeAdded ==
    \/ pq.finalIgnorePatterns \ DEFAULT_IGNORE_PATTERNS # {}
    \/ pq.finalIncludePatterns # {}

\* C8 as stated: a bad pattern fails the call and no partial configuration is
\* seen, and every supplied pattern has been validated before any pattern is
\* added to either set
C8_AllValidatedBeforeAnyAdd ==
    /\ BadPatternRejected
    /\ NoPartialConfiguration
    /\ SomeAdded => pq.validated = Len(pq.ignoreIn) + Len(pq.includeIn)

\* C8 as amended: a bad pattern at any position of either list fails the call
\* with InvalidPattern, and the caller never sees a partly built pattern set
\* (patterns are validated and added one by one, into sets local to the call)
C8_BadPatternNoConfiguration ==
    /\ BadPatternRejected
    /\ NoPartialConfiguration

\* C8 witness: the call failed with InvalidPattern on a bad pattern that came
\* after a good one, which had already been added to a set
C8_Witness ==
    /\ pq.pc = "thrown"
    /\ pq.error = "InvalidPattern"
    /\ SomeAdded
    /\ \E p \in Supplied : HasBadChar(p)

-----------------------------------------------------------------------------
(* ingestLocalRepository and ingestRemoteRepository *)

Failure(size) == [ok |-> FALSE, size |-> size]

\* calculateDirectorySize, its inner processItem: fs.stat follows symbolic
\* links, `links` of them lie on the path to itemPath; a directory adds its
\* entries and anything else its size, and any fs.stat or fs.readdir that
\* throws ends the whole computation
RECURSIVE processItem(_, _)
RECURSIVE processEntries(_, _, _)
processItem(itemPath, links) ==
    LET e == fs[itemPath]
    IN  IF e.kind = "absent" \/ ~e.statOk THEN Failure(0)
        ELSE IF e.kind = "link"
        THEN IF links + 1 > MAXSYMLINKS \/ Realpath(itemPath) = None
             THEN Failure(0)
             ELSE processItem(Realpath(itemPath)[1], links + 1)
        ELSE IF e.kind = "dir"
        THEN IF ~e.listOk THEN Failure(0)
             ELSE processEntries(itemPath, e.names, links)
        ELSE [ok |-> TRUE, size |-> e.size]

\* the loop of processItem over the entries of a directory
processEntries(itemPath, entries, links) ==
    IF entries = {} THEN [ok |-> TRUE, size |-> 0]
    ELSE LET entry == CHOOSE n \in entries : TRUE
             one   == processItem(Join(itemPath, entry), links)
             rest  == processEntries(itemPath, entries \ {entry}, links)
         IN  IF one.ok /\ rest.ok
             THEN [ok |-> TRUE, size |-> one.size + rest.size]
             ELSE Failure(one.size + rest.size)

calculateDirectorySize(dirPath) == processItem(dirPath, 0)

\* an ingestLocalRepository without its size check
RepositoryTooBigNever(totalSize) == FALSE

\* the size check of ingestLocalRepository
RepositoryTooBig(totalSize) == totalSize > MAX_TOTAL_SIZE_BYTES

Outcome(kind, error) == [kind |-> kind, error |-> error]

\* the call settles: the promise the caller holds resolves or rejects
Settle(c, outcome) ==
    IF outcome.kind = "ok"
    THEN [c EXCEPT !.pc = "returned", !.out = Some(result)]
    ELSE [c EXCEPT !.pc = "thrown", !.error = outcome.error]

\* a remote call whose cleanup stands after the try block, not in a finally
LeaveTryNoFinally(c, outcome) ==
    IF c.kind = "remote" /\ outcome.kind = "ok"
    THEN [c EXCEPT !.pc = "finally", !.pending = outcome]
    ELSE Settle(c, outcome)

\* control leaves the body of ingestLocalRepository; called from
\* ingestRemoteRepository that is leaving its try block, whose finally block
\* runs before the call settles
LeaveTry(c, outcome) ==
    IF c.kind = "remote"
    THEN [c EXCEPT !.pc = "finally", !.pending = outcome]
    ELSE Settle(c, outcome)

\* a path that does not exist
MISSING == <<Slash, "m">>

pSTAR == <<"*">>

\* RepositoryIngestOptions as far as the code reads them (branch and depth
\* only shape the git command line)
Options(ig, inc, sparse, sparsePatterns) ==
    [ignorePatterns |-> ig, includePatterns |-> inc, sparse |-> sparse,
     sparsePatterns |-> sparsePatterns]

OptionSets ==
    {Options(ig, inc, sp, pats) :
        ig \in {<<>>, <<nA>>, <<pSPACE>>}, inc \in {<<>>, <<pSTAR>>},
        sp \in BOOLEAN, pats \in {None, Some(<<nD>>)}}

\* an ingestLocalRepository(repoPath, options) or
\* ingestRemoteRepository(repoUrl, options) call about to run.  tempDir is
\* "none", "exists" or "removed"; removals and cloneRemovals count the fs.rm
\* calls of ingestRemoteRepository and of cloneRepository
Call(kind, repoPath, options) ==
    [pc |-> kind, kind |-> kind, repoPath |-> repoPath, options |-> options,
     tempDir |-> "none", removals |-> 0, cloneRemovals |-> 0,
     cloneFailed |-> FALSE, pending |-> Outcome("none", ""),
     error |-> "", out |-> None]

InitIngest ==
    /\ \E rn \in {{nREADME, nA, nD}, {nREADME, nA, nL}},
          dn \in {{nB, nK}, {nB, nE}}, lt \in {pREADME, pY},
          kt \in {ROOT, pA}, f \in {"none", "bStatFails"} \cup Weights :
          fs = MkFS(rn, dn, lt, kt, f)
    /\ query = Query({}, MAX_FILES, MaxDepth)
    /\ pc = "wait"
    /\ stack = <<>>
    /\ stats = [totalFiles |-> 0, totalSize |-> 0]
    /\ seenPaths = {}
    /\ rootNode = None
    /\ result = NoResult
    /\ raised = <<>>
    /\ counted = [p \in Paths |-> 0]
    /\ entered = [p \in Paths |-> 0]
    /\ pq = NoParse
    /\ \E o \in OptionSets :
          \/ \E r \in {ROOT, MISSING} : call = Call("local", r, o)
          \/ call = Call("remote", ROOT, o)

\* ingestRemoteRepository up to the try block: the temporary directory is made
\* (fs.mkdir may throw, and then nothing was created)
RemoteMkdir ==
    /\ call.pc = "remote"
    /\ \E mkdirOk \in BOOLEAN :
        call' = IF mkdirOk
                THEN [call EXCEPT !.pc = "clone", !.tempDir = "exists"]
                ELSE Settle(call, Outcome("error", "MkdirError"))
    /\ UNCHANGED <<walk, pq>>

\* cloneRepository(repoUrl, tempDir, options): fs.mkdir of the target
\* directory, which exists, does nothing; then git clone and, for a sparse
\* checkout with patterns, chdir and the two sparse-checkout commands; a
\* failure of any of them removes targetDir (a removal that fails is logged)
\* and is thrown on as 'Failed to clone repository'
CloneRepository ==
    /\ call.pc = "clone"
    /\ LET sparseSteps == IF call.options.sparse
                             /\ call.options.sparsePatterns # None
                          THEN {"chdir", "init", "set"} ELSE {}
       IN  \E failsAt \in {"none", "clone"} \cup sparseSteps, rmOk \in BOOLEAN :
            call' =
              IF failsAt = "none"
              THEN [call EXCEPT !.pc = "local"]
              ELSE LeaveTry([call EXCEPT
                                !.cloneFailed = TRUE,
                                !.cloneRemovals = @ + 1,
                                !.tempDir = IF rmOk THEN "removed" ELSE @],
                            Outcome("error", "CloneFailed"))
    /\ UNCHANGED <<walk, pq>>

\* fs.access(repoPath) resolves
Accessible(c) ==
    IF c.kind = "remote" THEN c.tempDir = "exists"
    ELSE c.repoPath \in Paths /\ fs[c.repoPath].kind # "absent"

\* ingestLocalRepository(repoPath, options) up to its call of parseQuery: the
\* existence check, the size pre-scan and the size check
IngestLocalRepository ==
    /\ call.pc = "local"
    /\ LET totalSize == calculateDirectorySize(call.repoPath)
       IN  IF ~Accessible(call)
           THEN /\ call' = LeaveTry(call, Outcome("error", "PathDoesNotExist"))
                /\ UNCHANGED pq
           ELSE IF ~totalSize.ok
           THEN /\ call' = LeaveTry(call, Outcome("error", "StatError"))
                /\ UNCHANGED pq
           ELSE IF RepositoryTooBig(totalSize.size)
           THEN /\ call' = LeaveTry(call, Outcome("error", "RepositoryTooBig"))
                /\ UNCHANGED pq
           ELSE /\ call' = [call EXCEPT !.pc = "parse"]
                /\ pq' = ParseCall(call.repoPath, call.options.ignorePatterns,
                                   call.options.includePatterns)
    /\ UNCHANGED walk

\* ingestLocalRepository after parseQuery has settled: the query it returned
\* goes to ingestRepository, the error it threw leaves the function
LocalParsed ==
    /\ call.pc = "parse"
    /\ pq.pc \in {"returned", "thrown"}
    /\ IF pq.pc = "returned"
       THEN /\ query' = pq.out[1]
            /\ pc' = "idle"
            /\ call' = [call EXCEPT !.pc = "ingest"]
       ELSE /\ call' = LeaveTry(call, Outcome("error", pq.error))
            /\ UNCHANGED <<query, pc>>
    /\ UNCHANGED <<fs, stack, stats, seenPaths, rootNode, result, raised,
                   counted, entered, pq>>

\* ingestLocalRepository returns what ingestRepository settled with
LocalReturn ==
    /\ call.pc = "ingest"
    /\ pc = "done"
    /\ call' = LeaveTry(call, IF result.kind = "ok" THEN Outcome("ok", "")
                              ELSE Outcome("error", result.error))
    /\ UNCHANGED <<walk, pq>>

\* the finally block of ingestRemoteRepository: fs.rm(tempDir) is called (a
\* removal that fails is logged), then the call settles as the try block left
\* it
RemoteFinally ==
    /\ call.pc = "finally"
    /\ \E rmOk \in BOOLEAN :
        call' = Settle([call EXCEPT !.removals = @ + 1,
                                    !.tempDir = IF rmOk THEN "removed" ELSE @],
                       call.pending)
    /\ UNCHANGED <<walk, pq>>

NextIngest ==
    \/ RemoteMkdir
    \/ CloneRepository
    \/ IngestLocalRepository
    \/ ParseEnter
    \/ ParseIgnore
    \/ ParseInclude
    \/ ParseReturn
    \/ LocalParsed
    \/ IngestRepository
    \/ ScanFiltered
    \/ ScanFile
    \/ ScanSubdirectory
    \/ ScanSymlink
    \/ ScanReturn
    \/ Finish
    \/ LocalReturn
    \/ RemoteFinally

SpecIngest == InitIngest /\ [][NextIngest]_vars

-----------------------------------------------------------------------------
(* Properties of the local and remote entry points *)

Completed == call.pc \in {"returned", "thrown"}

\* C12 (part): a remote call that made its temporary directory does not
\* settle before the removal of the directory has been called, and a clone
\* that failed has called the removal of its target directory
RemovalExecuted ==
    /\ (call.kind = "remote" /\ Completed /\ call.tempDir # "none")
            => call.removals = 1
    /\ call.cloneFailed => call.cloneRemovals = 1

\* C12 (part): a remote call settles in the step that calls the removal, and
\* in no other step
SettlesInCleanup ==
    (call.kind = "remote" /\ ~Completed /\ call.tempDir # "none"
        /\ call'.pc \in {"returned", "thrown"})
    => call'.removals = call.removals + 1

\* C12: every ingestRemoteRepository call that has made its temporary
\* directory calls its removal before it settles, whether the ingest
\* succeeded, the clone failed or the ingest failed; a failing clone has also
\* called the removal of its own target directory
C12_TempDirRemovalExecuted ==
    /\ []RemovalExecuted
    /\ [][SettlesInCleanup]_vars

\* C12 witness: the clone succeeded, the ingest of the clone failed (on a
\* pattern, in the size pre-scan or in the walk), and the call threw after one
\* removal that took the directory away
C12_Witness ==
    /\ call.kind = "remote"
    /\ call.pc = "thrown"
    /\ ~call.cloneFailed
    /\ call.error \notin {"MkdirError", "CloneFailed"}
    /\ call.removals = 1
    /\ call.tempDir = "removed"

\* C16: when ingestLocalRepository returns a result, the bytes counted in
\* RunStats.totalSize are within MAX_TOTAL_SIZE_BYTES
C16_TotalSizeWithinLimit ==
    (call.kind = "local" /\ call.pc = "returned") =>
        /\ stats.totalSize <= MAX_TOTAL_SIZE_BYTES
        /\ call.out[1].totalSize = stats.totalSize

\* C16 witness: a result was returned for a tree with a file of MAX_FILE_SIZE
\* bytes, counted with at least one other file
C16_Witness ==
    /\ call.kind = "local"
    /\ call.pc = "returned"
    /\ stats.totalSize > MAX_FILE_SIZE
    /\ stats.totalFiles = MAX_FILES

====
